---- MODULE Spec2Model ----
(***************************************************************************)
(* Model of packages/server/lib/util/settings.ts: the project config       *)
(* reader (read / id) with legacy-key migration, the testing-type overlay  *)
(* and the bootstrap of a missing file.  Two calls of id() -> read() with  *)
(* the same arguments run against one config file; every file read and     *)
(* every file write is one atomic step, as the promise chain of read()     *)
(* yields only at its I/O.                                                 *)
(***************************************************************************)
EXTENDS Integers, Sequences, FiniteSets, TLC

VARIABLES disk, disk0, options, pc, loaded, loadErr, via, writes, pending, result, idResult, afterDone

vars == <<disk, disk0, options, pc, loaded, loadErr, via, writes, pending, result, idResult, afterDone>>

(***************************************************************************)
(* JSON / JavaScript values.  A value is a primitive (named by its         *)
(* literal) or an object, a function from its own keys to values.          *)
(***************************************************************************)
Empty == <<>>

Prim(s) == [t |-> "prim", p |-> s, o |-> Empty]

Obj(f) == [t |-> "obj", p |-> "", o |-> f]

Undefined == Prim("undefined")

Null == Prim("null")

\* JavaScript truthiness: every object is truthy, and so is every primitive
\* but undefined, null, false, 0 and "".
FalsyPrims == {"undefined", "null", "false", "0", ""}

Truthy(v) == v.t = "obj" \/ v.p \notin FalsyPrims

\* 'k' in obj, for an object.
Has(v, k) == v.t = "obj" /\ k \in DOMAIN v.o

\* obj.k: undefined when the key is absent, and on a primitive.
Get(v, k) == IF Has(v, k) THEN v.o[k] ELSE Undefined

\* _.omit(obj, k)
Omit(v, k) == Obj([x \in (DOMAIN v.o) \ {k} |-> v.o[x]])

\* obj.k = val
Put(v, k, val) == Obj([x \in (DOMAIN v.o) \cup {k} |-> IF x = k THEN val ELSE v.o[x]])

\* ...v inside an object literal: the own keys of an object; nothing for
\* null, a number or a boolean.
Spread(v) == IF v.t = "obj" THEN v.o ELSE Empty

\* { ...a, ...b }: the keys of b win.
Merge(a, b) == Obj(Spread(b) @@ Spread(a))

(***************************************************************************)
(* The rewrite rules.  Each returns the rewritten document, or undefined.  *)
(***************************************************************************)
\* A flattening that merges the `cypress` object into the top level and
\* keeps the sibling keys.
flattenCypressKeepingSiblings(obj) ==
  IF Truthy(Get(obj, "cypress")) THEN Merge(Omit(obj, "cypress"), Get(obj, "cypress")) ELSE Undefined

flattenCypress(obj) == IF Truthy(Get(obj, "cypress")) THEN Get(obj, "cypress") ELSE Undefined

\* A rename that forgets _.omit: the old key stays beside the new one.
renameVisitKeepingOld(obj) ==
  LET v == Get(obj, "visitTimeout")
  IN IF Truthy(v) THEN Put(obj, "pageLoadTimeout", v) ELSE Undefined

renameVisitToPageLoad(obj) ==
  LET v == Get(obj, "visitTimeout")
  IN IF Truthy(v) THEN Put(Omit(obj, "visitTimeout"), "pageLoadTimeout", v) ELSE Undefined

renameCommandTimeout(obj) ==
  LET c == Get(obj, "commandTimeout")
  IN IF Truthy(c) THEN Put(Omit(obj, "commandTimeout"), "defaultCommandTimeout", c) ELSE Undefined

renameSupportFolder(obj) ==
  LET sf == Get(obj, "supportFolder")
  IN IF Truthy(sf) THEN Put(Omit(obj, "supportFolder"), "supportFile", sf) ELSE Undefined

\* The reducer of _applyRewriteRules: ret ? ret : memo
KeepOr(ret, memo) == IF Truthy(ret) THEN ret ELSE memo

\* _.reduce over [flattenCypress, renameVisitToPageLoad, renameCommandTimeout,
\* renameSupportFolder], from _.cloneDeep(obj) (values here are immutable).
_applyRewriteRules(obj) ==
  LET m1 == KeepOr(flattenCypress(obj), obj)
      m2 == KeepOr(renameVisitToPageLoad(m1), m1)
      m3 == KeepOr(renameCommandTimeout(m2), m2)
      m4 == KeepOr(renameSupportFolder(m3), m3)
  IN m4

(***************************************************************************)
(* Paths.  A path is the sequence of its pieces, cut before every dot and  *)
(* around every separator: cypress.json.js is <<"cypress",".json",".js">>. *)
(***************************************************************************)
projectRoot == <<"/", "proj">>

DefaultConfigFile == <<"cypress", ".json">>

\* path.isAbsolute(file)
isAbsolute(file) == Len(file) > 0 /\ file[1] = "/"

\* path.join(projectRoot, file)
pathJoin(root, file) == root \o <<"/">> \o file

_pathToFile(root, file) == IF isAbsolute(file) THEN file ELSE pathJoin(root, file)

\* /\.json$/.test(file): the predicate that picks fs.readJSON over requireAsync.
EndsWithJson(file) == Len(file) > 0 /\ file[Len(file)] = ".json"

\* /\.json/.test(filePath)
isJSONFile(filePath) == \E i \in 1..Len(filePath) : filePath[i] = ".json"

(***************************************************************************)
(* Options.  configFile is false, unset or a path; testingType is unset,   *)
(* "component" or "e2e"; runProject is unset ("") or a path string.        *)
(***************************************************************************)
CfFalse == [t |-> "false", p |-> <<>>]

CfUnset == [t |-> "unset", p |-> <<>>]

CfPath(p) == [t |-> "path", p |-> p]

isComponentTesting(opts) == opts.testingType = "component"

\* options.configFile === false ? false : (options.configFile || 'cypress.json')
configFile(opts) ==
  IF opts.configFile.t = "false" THEN CfFalse
  ELSE IF opts.configFile.t = "path" /\ opts.configFile.p # <<>> THEN opts.configFile
  ELSE CfPath(DefaultConfigFile)

\* file && _pathToFile(projectRoot, file); only used where configFile is not false.
pathToConfigFile(root, opts) == _pathToFile(root, configFile(opts).p)

(***************************************************************************)
(* Errors.                                                                 *)
(***************************************************************************)
NoFile == [t |-> "none", p |-> <<>>]

\* An error of the file system or of the language: not a Cypress error.
RawErr(code) ==
  [type |-> "", code |-> code, isCypressErr |-> FALSE, file |-> NoFile, root |-> <<>>, cause |-> <<>>]

\* The loader's "cannot resolve the module" error: err.type is MODULE_NOT_FOUND.
ModuleNotFound ==
  [type |-> "MODULE_NOT_FOUND", code |-> "", isCypressErr |-> FALSE, file |-> NoFile, root |-> <<>>, cause |-> <<>>]

\* The loader's error for any other failure, tagged with loadErrorCode.
ConfigFileError ==
  [type |-> "CONFIG_FILE_ERROR", code |-> "", isCypressErr |-> TRUE, file |-> NoFile, root |-> <<>>, cause |-> <<>>]

\* errors.get('CONFIG_FILE_NOT_FOUND', options.configFile, projectRoot)
ConfigFileNotFound(opts, root) ==
  [type |-> "CONFIG_FILE_NOT_FOUND", code |-> "", isCypressErr |-> TRUE,
   file |-> opts.configFile, root |-> root, cause |-> <<>>]

\* errors.throw('ERROR_READING_FILE', file, err)
_logReadErr(file, err) ==
  [type |-> "ERROR_READING_FILE", code |-> "", isCypressErr |-> TRUE,
   file |-> CfPath(file), root |-> <<>>, cause |-> <<err>>]

\* A last .catch that rethrows whatever it caught.
FinalCatchRethrows(file, err) == err

\* The last .catch of read(): a Cypress error is rethrown, anything else wrapped.
FinalCatch(file, err) == IF err.isCypressErr THEN err ELSE _logReadErr(file, err)

\* A first .catch that knows MODULE_NOT_FOUND only.
IsMissingModuleOnly(file, err) == err.type = "MODULE_NOT_FOUND"

\* The condition of the first .catch of read().
IsMissing(file, err) == err.type = "MODULE_NOT_FOUND" \/ (err.code = "ENOENT" /\ isJSONFile(file))

(***************************************************************************)
(* The .then handler of read(): overlay, then migration of a JSON file.    *)
(***************************************************************************)
\* Lines 123-129: the object of the selected testing type is spread over the
\* top level.
Overlay(opts, configObject) ==
  LET c1 == IF isComponentTesting(opts) /\ Has(configObject, "component")
            THEN Merge(configObject, Get(configObject, "component"))
            ELSE configObject
  IN IF ~isComponentTesting(opts) /\ Has(c1, "e2e")
     THEN Merge(c1, Get(c1, "e2e"))
     ELSE c1

Return(v) == [k |-> "return", val |-> v, err |-> <<>>]

WriteThenReturn(v) == [k |-> "write", val |-> v, err |-> <<>>]

Throw(e) == [k |-> "throw", val |-> Undefined, err |-> <<e>>]

\* Lines 122-150.  The `in` operator throws a TypeError on a primitive.  The
\* outcome is a value to return, a value to write and then return, or a throw.
ThenHandler(file, opts, configObject) ==
  IF configObject.t # "obj" THEN Throw(RawErr("TypeError"))
  ELSE LET eff == Overlay(opts, configObject)
           changed == _applyRewriteRules(eff)
       IN IF ~isJSONFile(file) THEN Return(eff)
          ELSE IF eff = changed THEN Return(eff)
          ELSE WriteThenReturn(changed)

(***************************************************************************)
(* The collaborators: fs.readJSON, requireAsync, fs.outputJson.  The file  *)
(* is absent, or holds a document as JSON text or as a module's export.    *)
(***************************************************************************)
Absent == [exists |-> FALSE, fmt |-> "", doc |-> Undefined]

JsonFile(d) == [exists |-> TRUE, fmt |-> "json", doc |-> d]

ModuleFile(d) == [exists |-> TRUE, fmt |-> "module", doc |-> d]

Loaded(d) == [ok |-> TRUE, doc |-> d, err |-> <<>>]

LoadErr(e) == [ok |-> FALSE, doc |-> Undefined, err |-> <<e>>]

\* fs.readJSON(path): the document, ENOENT when the file is absent, or
\* another I/O error.
readJSON(f) ==
  IF ~f.exists THEN {LoadErr(RawErr("ENOENT"))}
  ELSE {Loaded(f.doc), LoadErr(RawErr("EACCES"))}

\* requireAsync(file, {projectRoot, loadErrorCode: 'CONFIG_FILE_ERROR'}): the
\* module's export, MODULE_NOT_FOUND when it cannot be resolved, or the tagged
\* error.  JSON text is a module only when it is "{}" (an empty block).
requireAsync(f) ==
  IF ~f.exists THEN {LoadErr(ModuleNotFound)}
  ELSE IF f.fmt = "module" THEN {Loaded(f.doc), LoadErr(ConfigFileError)}
  ELSE IF f.doc = Obj(Empty) THEN {Loaded(Obj(Empty)), LoadErr(ConfigFileError)}
  ELSE {LoadErr(ConfigFileError)}

\* Line 105: the load read() starts.
LoaderOf(file) == IF EndsWithJson(file) THEN "readJSON" ELSE "requireAsync"

LoadOutcomes(file, f) == IF LoaderOf(file) = "readJSON" THEN readJSON(f) ELSE requireAsync(f)

\* fs.outputJson(file, doc, {spaces: 2}) either writes the JSON text or fails.
WriteErrors == {RawErr("EACCES")}

(***************************************************************************)
(* The inputs: config documents and options.                               *)
(***************************************************************************)
\* How many times a document may be wrapped in a `cypress` key.
MaxWrap == 2

\* Documents without a `cypress` key and without an overlay object.
LeafDocs ==
  { Obj(Empty),
    Obj("visitTimeout" :> Prim("5000")),
    Obj("visitTimeout" :> Prim("0")),
    Obj(("commandTimeout" :> Prim("3000")) @@ ("supportFolder" :> Prim("support"))),
    Obj(("supportFolder" :> Prim("")) @@ ("commandTimeout" :> Null)),
    Obj("baseUrl" :> Prim("http://x")),
    Obj(("projectId" :> Prim("id-123")) @@ ("visitTimeout" :> Prim("5000"))
          @@ ("pageLoadTimeout" :> Prim("60000"))) }

\* The top levels an overlay object is added to.
OverlayBases ==
  { Obj(Empty),
    Obj("baseUrl" :> Prim("a")),
    Obj(("baseUrl" :> Prim("a")) @@ ("visitTimeout" :> Prim("5000"))) }

\* The values of an `e2e` / `component` key: an object or null.
OverlayValues == LeafDocs \cup {Obj("baseUrl" :> Prim("b")), Null}

OverlayDocs == { Put(b, k, v) : b \in OverlayBases, k \in {"e2e", "component"}, v \in OverlayValues }

RECURSIVE Wrapped(_)
\* The documents wrapped n times in a `cypress` key.
Wrapped(n) ==
  IF n = 0 THEN LeafDocs \cup OverlayDocs
  ELSE { Obj("cypress" :> d) : d \in Wrapped(n - 1) }

\* A `cypress` key beside other keys, and one that holds a primitive.
SiblingDocs ==
  { Obj(("cypress" :> Obj("baseUrl" :> Prim("http://x"))) @@ ("baseUrl" :> Prim("sib"))
          @@ ("visitTimeout" :> Prim("5000"))),
    Obj(("cypress" :> Null) @@ ("visitTimeout" :> Prim("5000"))),
    Obj("cypress" :> Prim("true")) }

Docs == UNION { Wrapped(n) : n \in 0..MaxWrap } \cup SiblingDocs

ConfigFiles ==
  { CfFalse, CfUnset,
    CfPath(<<"/", "abs", "/", "other", ".json">>),
    CfPath(<<"cypress", ".config", ".js">>),
    CfPath(<<"cypress", ".json", ".js">>) }

OptionSet ==
  [testingType : {"unset", "component", "e2e"}, configFile : ConfigFiles, runProject : {"", "/proj"}]

\* What the config file of a project can hold before the first call.
InitialFiles(opts) ==
  IF opts.configFile.t = "false" THEN {Absent}
  ELSE LET file == pathToConfigFile(projectRoot, opts)
       IN {Absent} \cup { IF EndsWithJson(file) THEN JsonFile(d) ELSE ModuleFile(d) : d \in Docs }

(***************************************************************************)
(* The state machine.                                                      *)
(***************************************************************************)
Calls == {1, 2}

Other(c) == IF c = 1 THEN 2 ELSE 1

\* The config file of the calls.  projectRoot is absolute, so the path read at
\* line 105, path.resolve(projectRoot, file), is the path written, file.
File == pathToConfigFile(projectRoot, options)

NoResult == [status |-> "none", val |-> Undefined, err |-> <<>>]

Resolved(v) == [status |-> "ok", val |-> v, err |-> <<>>]

Rejected(e) == [status |-> "err", val |-> Undefined, err |-> <<e>>]

\* id() without its .catch: a failure of read() propagates.
idWithoutCatch(res) ==
  IF res.status = "ok"
  THEN Resolved(Get(res.val, "projectId"))
  ELSE res

\* id(): .then((config) => config.projectId).catch(() => null)
id(res) ==
  IF res.status = "ok"
  THEN Resolved(Get(res.val, "projectId"))
  ELSE Resolved(Null)

\* One call of fs.outputJson: its arguments, and the error it failed with.
WriteRec(file, doc, err) == [file |-> file, doc |-> doc, err |-> err]

Init ==
  /\ options \in OptionSet
  /\ disk0 \in InitialFiles(options)
  /\ disk = disk0
  /\ pc = [c \in Calls |-> "start"]
  /\ loaded = [c \in Calls |-> <<>>]
  /\ loadErr = [c \in Calls |-> <<>>]
  /\ via = [c \in Calls |-> ""]
  /\ writes = [c \in Calls |-> <<>>]
  /\ pending = [c \in Calls |-> Undefined]
  /\ result = [c \in Calls |-> NoResult]
  /\ idResult = [c \in Calls |-> NoResult]
  /\ afterDone = [c \in Calls |-> FALSE]

\* read() settles with res; the handlers of id() run on it.
Settle(c, res) ==
  /\ pc' = [pc EXCEPT ![c] = "done"]
  /\ result' = [result EXCEPT ![c] = res]
  /\ idResult' = [idResult EXCEPT ![c] = id(res)]
  /\ pending' = [pending EXCEPT ![c] = Undefined]

\* What follows the .then handler's outcome h: a settled call, or the
\* pending write of the migrated document.
Continue(c, h) ==
  IF h.k = "write"
  THEN /\ pc' = [pc EXCEPT ![c] = "write"]
       /\ pending' = [pending EXCEPT ![c] = h.val]
       /\ UNCHANGED <<result, idResult>>
  ELSE IF h.k = "return" THEN Settle(c, Resolved(h.val))
  ELSE Settle(c, Rejected(FinalCatch(File, h.err[1])))

\* Lines 99-101: configFile === false.
ReadNoConfigFile(c) ==
  /\ pc[c] = "start"
  /\ options.configFile.t = "false"
  /\ Settle(c, Resolved(Obj(Empty)))
  /\ UNCHANGED <<disk, disk0, options, loaded, loadErr, via, writes, afterDone>>

\* The load succeeds and the .then handler runs on the loaded document.
LoadOk(c) ==
  /\ pc[c] = "start"
  /\ options.configFile.t # "false"
  /\ \E o \in LoadOutcomes(File, disk) :
       /\ o.ok
       /\ loaded' = [loaded EXCEPT ![c] = <<o.doc>>]
       /\ Continue(c, ThenHandler(File, options, o.doc))
  /\ via' = [via EXCEPT ![c] = LoaderOf(File)]
  /\ afterDone' = [afterDone EXCEPT ![c] = result[Other(c)].status = "ok"]
  /\ UNCHANGED <<disk, disk0, options, loadErr, writes>>

\* The load fails: lines 111-121, then the last .catch.
LoadFail(c) ==
  /\ pc[c] = "start"
  /\ options.configFile.t # "false"
  /\ \E o \in LoadOutcomes(File, disk) :
       /\ ~o.ok
       /\ loadErr' = [loadErr EXCEPT ![c] = o.err]
       /\ IF IsMissing(File, o.err[1])
          THEN IF options.runProject # ""
               THEN Settle(c, Rejected(FinalCatch(File, ConfigFileNotFound(options, projectRoot))))
               ELSE /\ pc' = [pc EXCEPT ![c] = "bootstrap"]
                    /\ UNCHANGED <<result, idResult, pending>>
          ELSE Settle(c, Rejected(FinalCatch(File, o.err[1])))
  /\ via' = [via EXCEPT ![c] = LoaderOf(File)]
  /\ afterDone' = [afterDone EXCEPT ![c] = result[Other(c)].status = "ok"]
  /\ UNCHANGED <<disk, disk0, options, loaded, writes>>

\* Line 117 succeeds: fs.outputJson(file, {}) resolves to undefined, and the
\* .then handler runs on its default {}.
BootstrapOk(c) ==
  /\ pc[c] = "bootstrap"
  /\ disk' = JsonFile(Obj(Empty))
  /\ writes' = [writes EXCEPT ![c] = Append(@, WriteRec(File, Obj(Empty), <<>>))]
  /\ Continue(c, ThenHandler(File, options, Obj(Empty)))
  /\ UNCHANGED <<disk0, options, loaded, loadErr, via, afterDone>>

\* Line 117 fails.
BootstrapFail(c) ==
  /\ pc[c] = "bootstrap"
  /\ \E e \in WriteErrors :
       /\ Settle(c, Rejected(FinalCatch(File, e)))
       /\ writes' = [writes EXCEPT ![c] = Append(@, WriteRec(File, Obj(Empty), <<e>>))]
  /\ UNCHANGED <<disk, disk0, options, loaded, loadErr, via, afterDone>>

\* Lines 147-150 succeed: the migrated document is written and returned.
WriteOk(c) ==
  /\ pc[c] = "write"
  /\ disk' = JsonFile(pending[c])
  /\ writes' = [writes EXCEPT ![c] = Append(@, WriteRec(File, pending[c], <<>>))]
  /\ Settle(c, Resolved(pending[c]))
  /\ UNCHANGED <<disk0, options, loaded, loadErr, via, afterDone>>

\* Line 147 fails.
WriteFail(c) ==
  /\ pc[c] = "write"
  /\ \E e \in WriteErrors :
       /\ Settle(c, Rejected(FinalCatch(File, e)))
       /\ writes' = [writes EXCEPT ![c] = Append(@, WriteRec(File, pending[c], <<e>>))]
  /\ UNCHANGED <<disk, disk0, options, loaded, loadErr, via, afterDone>>

Next ==
  \E c \in Calls :
    \/ ReadNoConfigFile(c)
    \/ LoadOk(c)
    \/ LoadFail(c)
    \/ BootstrapOk(c)
    \/ BootstrapFail(c)
    \/ WriteOk(c)
    \/ WriteFail(c)

Spec == Init /\ [][Next]_vars

(***************************************************************************)
(* Vocabulary of the properties.                                           *)
(***************************************************************************)
OldKeys == {"visitTimeout", "commandTimeout", "supportFolder"}

NewKey(old) ==
  IF old = "visitTimeout" THEN "pageLoadTimeout"
  ELSE IF old = "commandTimeout" THEN "defaultCommandTimeout"
  ELSE "supportFile"

NewKeys == { NewKey(old) : old \in OldKeys }

\* The call loaded a document and resolved.
ReadOk(c) == result[c].status = "ok" /\ loaded[c] # <<>>

\* The effective document of a call that loaded an object.
Effective(c) == Overlay(options, loaded[c][1])

\* The effective document with one truthy `cypress` wrapper taken off.
Unwrapped(c) ==
  IF Truthy(Get(Effective(c), "cypress")) THEN Get(Effective(c), "cypress") ELSE Effective(c)

\* The write attempts of a call that succeeded.
OkWrites(c) == { i \in 1..Len(writes[c]) : writes[c][i].err = <<>> }

(***************************************************************************)
(* C1                                                                      *)
(***************************************************************************)
\* C1 as stated: after every successful read() the returned document has
\* none of the keys cypress, visitTimeout, commandTimeout, supportFolder, and
\* every deprecated key of the loaded (effective) document has its renamed
\* or unwrapped equivalent in the returned document.
C1_NoDeprecatedKeyRemains ==
  \A c \in Calls :
    ReadOk(c) =>
      LET r == result[c].val
          eff == Effective(c)
      IN /\ \A k \in OldKeys \cup {"cypress"} : ~Has(r, k)
         /\ \A old \in OldKeys : Has(eff, old) => Has(r, NewKey(old))
         /\ Has(eff, "cypress") => \A k \in DOMAIN Spread(Get(eff, "cypress")) : Has(r, k)

\* C1 amended: after a successful read() of a file that isJSONFile accepts,
\* the returned document holds no truthy value under visitTimeout,
\* commandTimeout or supportFolder; each of these keys that is truthy in the
\* effective document, once one truthy `cypress` wrapper is taken off, has its
\* value under the renamed key; a deprecated key with a falsy value stays as
\* it is, and `cypress` remains exactly as the unwrapped document has it.  A
\* file that isJSONFile rejects is returned with the overlay only.
C1_TruthyDeprecatedKeysRenamed ==
  \A c \in Calls :
    ReadOk(c) =>
      LET r == result[c].val
          u == Unwrapped(c)
      IN IF isJSONFile(File)
         THEN /\ \A old \in OldKeys :
                   /\ ~Truthy(Get(r, old))
                   /\ Truthy(Get(u, old)) => Get(r, NewKey(old)) = Get(u, old)
                   /\ (Has(u, old) /\ ~Truthy(Get(u, old))) =>
                        (Has(r, old) /\ Get(r, old) = Get(u, old))
              /\ Has(r, "cypress") = Has(u, "cypress")
              /\ Get(r, "cypress") = Get(u, "cypress")
         ELSE r = Effective(c)

\* A deprecated key that only the e2e overlay brings is renamed in the result
\* and the file is rewritten.
C1_Witness ==
  \E c \in Calls :
    /\ ReadOk(c)
    /\ isJSONFile(File)
    /\ ~Has(loaded[c][1], "visitTimeout")
    /\ Truthy(Get(Get(loaded[c][1], "e2e"), "visitTimeout"))
    /\ ~Has(result[c].val, "visitTimeout")
    /\ Get(result[c].val, "pageLoadTimeout") = Prim("5000")
    /\ OkWrites(c) # {}

(***************************************************************************)
(* C2                                                                      *)
(***************************************************************************)
\* C2 as stated: a config file loaded through requireAsync is never migrated
\* and never written: the call that loaded it has no pending write, made no
\* write, and returns the loaded document with the overlay only (which is
\* what the agreement of the predicate of line 105 with isJSONFile gives).
C2_ModuleFilesBypassMigration ==
  \A c \in Calls :
    (via[c] = "requireAsync" /\ loaded[c] # <<>>) =>
      /\ pc[c] # "write"
      /\ writes[c] = <<>>
      /\ result[c].status = "ok" => result[c].val = Effective(c)

(***************************************************************************)
(* C3                                                                      *)
(***************************************************************************)
\* C3 as stated: the rewrite sequence is idempotent: applied again to the
\* document it produced from the effective document of a call (the one
\* read() is about to write, or returned), it changes nothing.
C3_RewriteIdempotent ==
  \A c \in Calls :
    (loaded[c] # <<>> /\ loaded[c][1].t = "obj") =>
      LET once == _applyRewriteRules(Effective(c))
      IN /\ _applyRewriteRules(once) = once
         /\ pc[c] = "write" => _applyRewriteRules(pending[c]) = pending[c]

(***************************************************************************)
(* C4                                                                      *)
(***************************************************************************)
\* C4 as stated: a read() of a JSON config file that starts after a
\* successful read() with the same arguments writes nothing and returns a
\* document equal to the one the first call returned.
C4_SecondReadChangesNothing ==
  \A c \in Calls :
    (afterDone[c] /\ EndsWithJson(File)) =>
      /\ pc[c] # "write"
      /\ writes[c] = <<>>
      /\ result[c].status = "ok" => result[c].val = result[Other(c)].val

(***************************************************************************)
(* C5                                                                      *)
(***************************************************************************)
\* C5 as stated: id() never rejects; it resolves to the projectId of the
\* document read() returned when the document has one, to null when it has
\* none, and to null when read() failed.
C5_IdNullWhenAbsent ==
  \A c \in Calls :
    pc[c] = "done" =>
      /\ idResult[c].status = "ok"
      /\ result[c].status = "ok" =>
           idResult[c].val = IF Has(result[c].val, "projectId")
                             THEN Get(result[c].val, "projectId") ELSE Null
      /\ result[c].status = "err" => idResult[c].val = Null

\* C5 amended: id() never rejects; it resolves to the projectId of the
\* document read() returned when the document has one, to undefined (not
\* null) when it has none, and to null when read() failed.
C5_IdUndefinedWhenAbsent ==
  \A c \in Calls :
    pc[c] = "done" =>
      /\ idResult[c].status = "ok"
      /\ result[c].status = "ok" =>
           idResult[c].val = IF Has(result[c].val, "projectId")
                             THEN Get(result[c].val, "projectId") ELSE Undefined
      /\ result[c].status = "err" => idResult[c].val = Null

\* One call returned a document with a projectId and id() gave it; the other
\* failed on a Cypress error and id() gave null.
C5_Witness ==
  /\ result[1].status = "ok"
  /\ Has(result[1].val, "projectId")
  /\ idResult[1] = Resolved(Prim("id-123"))
  /\ result[2].status = "err"
  /\ result[2].err[1].isCypressErr
  /\ idResult[2] = Resolved(Null)

(***************************************************************************)
(* C6                                                                      *)
(***************************************************************************)
\* The load of the call failed with MODULE_NOT_FOUND, or with ENOENT on a
\* path that ends in .json.
MissingFile(c) ==
  /\ loadErr[c] # <<>>
  /\ \/ loadErr[c][1].type = "MODULE_NOT_FOUND"
     \/ loadErr[c][1].code = "ENOENT" /\ EndsWithJson(File)

\* C6: when the load fails with MODULE_NOT_FOUND, or with ENOENT on a JSON
\* path, then (a) with args.runProject set the call fails with
\* CONFIG_FILE_NOT_FOUND carrying options.configFile and the project root
\* and makes no write; (b) otherwise the call makes exactly one write, of {}
\* to the target path, and once that write has succeeded it returns {} (a
\* write that fails ends the call with ERROR_READING_FILE, as C7 says).
C6_MissingFilePolicy ==
  \A c \in Calls :
    MissingFile(c) =>
      IF options.runProject # ""
      THEN /\ pc[c] = "done"
           /\ writes[c] = <<>>
           /\ result[c].status = "err"
           /\ result[c].err[1].type = "CONFIG_FILE_NOT_FOUND"
           /\ result[c].err[1].file = options.configFile
           /\ result[c].err[1].root = projectRoot
      ELSE /\ pc[c] \in {"bootstrap", "done"}
           /\ pc[c] = "bootstrap" => (writes[c] = <<>> /\ result[c].status = "none")
           /\ pc[c] = "done" =>
                /\ Len(writes[c]) = 1
                /\ writes[c][1].file = File
                /\ writes[c][1].doc = Obj(Empty)
                /\ writes[c][1].err = <<>> => result[c] = Resolved(Obj(Empty))
                /\ writes[c][1].err # <<>> => result[c].status = "err"

\* A module-format config file was missing, no runProject: the call wrote {}
\* once, the file holds {} and the call returned {}.
C6_Witness ==
  \E c \in Calls :
    /\ MissingFile(c)
    /\ loadErr[c][1].type = "MODULE_NOT_FOUND"
    /\ options.runProject = ""
    /\ pc[c] = "done"
    /\ Len(writes[c]) = 1
    /\ result[c] = Resolved(Obj(Empty))
    /\ disk = JsonFile(Obj(Empty))

(***************************************************************************)
(* C7                                                                      *)
(***************************************************************************)
\* The errors that the collaborators and the language raised in a call.
Raised(c) ==
  { loadErr[c][i] : i \in 1..Len(loadErr[c]) }
    \cup UNION { { writes[c][i].err[j] : j \in 1..Len(writes[c][i].err) } : i \in 1..Len(writes[c]) }
    \cup (IF loaded[c] # <<>> /\ loaded[c][1].t # "obj" THEN {RawErr("TypeError")} ELSE {})

\* C7: every failure of read() is a Cypress error: either a domain error
\* passed through as it was raised or made (CONFIG_FILE_ERROR,
\* CONFIG_FILE_NOT_FOUND), or ERROR_READING_FILE carrying the file path and,
\* as its cause, the unclassified error that was raised in the call; the
\* cause is never itself a Cypress error, so nothing is wrapped twice.
C7_FailuresAreClassified ==
  \A c \in Calls :
    result[c].status = "err" =>
      LET e == result[c].err[1]
      IN /\ e.isCypressErr
         /\ IF e.type = "ERROR_READING_FILE"
            THEN /\ e.file = CfPath(File)
                 /\ Len(e.cause) = 1
                 /\ ~e.cause[1].isCypressErr
                 /\ e.cause[1] \in Raised(c)
            ELSE /\ e.cause = <<>>
                 /\ e \in Raised(c) \cup {ConfigFileNotFound(options, projectRoot)}

\* The write of a migrated document failed and the call failed with
\* ERROR_READING_FILE around that error.
C7_Witness ==
  \E c \in Calls :
    /\ result[c].status = "err"
    /\ loaded[c] # <<>>
    /\ Len(writes[c]) = 1
    /\ writes[c][1].err = <<RawErr("EACCES")>>
    /\ writes[c][1].doc # Obj(Empty)
    /\ result[c].err[1] = _logReadErr(File, RawErr("EACCES"))

(***************************************************************************)
(* C8                                                                      *)
(***************************************************************************)
\* The migration as the claim words it: the document is replaced by its
\* truthy `cypress` value, then every old key with a truthy value gives its
\* value to the new key and is removed.
Migrated(eff) ==
  LET b == IF Truthy(Get(eff, "cypress")) THEN Get(eff, "cypress") ELSE eff
      fired == { old \in OldKeys : Truthy(Get(b, old)) }
      keys == ((DOMAIN Spread(b)) \ fired) \cup { NewKey(old) : old \in fired }
  IN IF b.t # "obj" THEN b
     ELSE Obj([k \in keys |->
                IF \E old \in fired : NewKey(old) = k
                THEN b.o[CHOOSE old \in fired : NewKey(old) = k]
                ELSE b.o[k]])

\* C8: a call that loaded a file ending in .json has, once its .then handler
\* ran, either returned the effective document (when the migration changes
\* nothing, with no write) or the migrated document as its pending write;
\* when it resolves, it returns the migrated document, and when that differs
\* from the effective document the call made exactly one write, to the
\* config file, of the returned document.  {"visitTimeout": 5000} gives
\* {"pageLoadTimeout": 5000}, {"cypress": {"baseUrl": "http://x"}} gives
\* {"baseUrl": "http://x"}.
C8_MigrationResult ==
  \A c \in Calls :
    (EndsWithJson(File) /\ loaded[c] # <<>> /\ loaded[c][1].t = "obj") =>
      LET eff == Effective(c)
          m == Migrated(eff)
      IN /\ pc[c] = "write" => (m # eff /\ pending[c] = m /\ writes[c] = <<>>)
         /\ m # eff => (pc[c] = "write" \/ Len(writes[c]) = 1)
         /\ result[c].status = "ok" =>
              /\ result[c].val = m
              /\ IF m = eff THEN writes[c] = <<>>
                 ELSE writes[c] = <<WriteRec(File, result[c].val, <<>>)>>
              /\ loaded[c][1] = Obj("visitTimeout" :> Prim("5000")) =>
                   result[c].val = Obj("pageLoadTimeout" :> Prim("5000"))
              /\ loaded[c][1] = Obj("cypress" :> Obj("baseUrl" :> Prim("http://x"))) =>
                   result[c].val = Obj("baseUrl" :> Prim("http://x"))

\* A document with a `cypress` key beside other keys was read: the siblings
\* are dropped, the file was rewritten once and holds what the call returned.
C8_Witness ==
  \E c \in Calls :
    /\ EndsWithJson(File)
    /\ ReadOk(c)
    /\ Has(loaded[c][1], "cypress")
    /\ Get(loaded[c][1], "baseUrl") = Prim("sib")
    /\ result[c].val = Obj("baseUrl" :> Prim("http://x"))
    /\ writes[c] = <<WriteRec(File, result[c].val, <<>>)>>
    /\ disk = JsonFile(result[c].val)

(***************************************************************************)
(* C9                                                                      *)
(***************************************************************************)
\* C9 as stated: when read() rewrites a JSON config file that has no
\* `cypress` key, the written content differs from the content the call read
\* only in the deprecated keys and their replacements: every other top-level
\* key is in both with the same value.
C9_WriteKeepsOtherKeys ==
  \A c \in Calls :
    (EndsWithJson(File) /\ loaded[c] # <<>> /\ ~Has(loaded[c][1], "cypress")) =>
      \A i \in OkWrites(c) :
        LET old == loaded[c][1]
            new == writes[c][i].doc
        IN \A k \in ((DOMAIN Spread(old)) \cup (DOMAIN Spread(new))) \ (OldKeys \cup NewKeys) :
             Has(old, k) /\ Has(new, k) /\ Get(old, k) = Get(new, k)

(***************************************************************************)
(* C10                                                                     *)
(***************************************************************************)
\* The file a single read() run alone, with no I/O fault, leaves behind.
AloneLeaves(f) ==
  IF ~f.exists THEN JsonFile(Obj(Empty))
  ELSE LET h == ThenHandler(File, options, f.doc)
       IN IF h.k = "write" THEN JsonFile(h.val) ELSE f

\* C10 as stated: when both calls on a JSON config file have resolved, they
\* returned equal documents and the file holds what one read() run alone on
\* the initial file would have left.
C10_ConcurrentReadsConverge ==
  (EndsWithJson(File) /\ \A c \in Calls : result[c].status = "ok") =>
    /\ result[1].val = result[2].val
    /\ disk = AloneLeaves(disk0)

====
